---- MODULE Spec2Model ----
(***************************************************************************)
(* Model of the server-side Entity class (src/unnamed/part_000, lines      *)
(* 1-221): identity, position, lifecycle flag, the two visibility override *)
(* lists and the aggro capability hook; and of the music fades of the      *)
(* client-side Audio class (lines 223-520).                                *)
(*                                                                         *)
(* The world is a table of Entity objects keyed by instance string.  Each  *)
(* method of the class is an operator from the world table to the world    *)
(* table after the call (so that a method's frame is part of what it       *)
(* computes), and an action that applies it and records the call in        *)
(* `last`.                                                                 *)
(***************************************************************************)
EXTENDS Integers, Sequences, FiniteSets, TLC

VARIABLES
    entities,   \* instance string -> the Entity object holding that instance
    live,       \* instances of the entities currently in the world
    spawned,    \* instance string -> number of Entity objects built with it
    clean,      \* history: no setPosition since the entity's last updatePosition
    committed,  \* history: the cell the entity was in when updatePosition was
                \* last called on it (when it was built, if never)
    last,       \* history: the latest call, its arguments and its outcome
    audio       \* the Audio object, its songs and the pending timers

entityVars == <<entities, live, spawned, clean, committed, last>>

vars == <<entities, live, spawned, clean, committed, last, audio>>

(***************************************************************************)
(* Bounds of the model.                                                    *)
(***************************************************************************)
MaxCoord == 1       \* grid cells 0..MaxCoord on each axis
MaxIdsLen == 2      \* cap on the length of an invisiblesIds array
MaxSerial == 2      \* cap on how often one instance string is handed out
MaxReach == 3       \* spatial queries: cells and radii 0..MaxReach
MaxTimers == 3      \* cap on the number of timers the Audio object sets
MaxParses == 2      \* cap on the number of calls of parse

Instances == {"e1", "e2"}
Ids == {1, 2}
Coord == 0..MaxCoord
NoCallback == "undefined"
Callbacks == {"cb1", "cb2"}
NoInstance == "none"

(***************************************************************************)
(* JavaScript object used as a map: keys present, each with a value.       *)
(***************************************************************************)
EmptyMap == [k \in {} |-> 0]

MapSet(m, key, value) ==
    [k \in (DOMAIN m) \cup {key} |-> IF k = key THEN value ELSE m[k]]

MapDelete(m, key) == [k \in (DOMAIN m) \ {key} |-> m[k]]

(***************************************************************************)
(* Array.prototype.indexOf and Array.prototype.splice(index, 1), with      *)
(* JavaScript's 0-based indices.                                           *)
(***************************************************************************)
indexOf(arr, v) ==
    IF \E i \in 1..Len(arr) : arr[i] = v
    THEN (CHOOSE i \in 1..Len(arr) :
              arr[i] = v /\ \A j \in 1..(i - 1) : arr[j] # v) - 1
    ELSE -1

splice1(arr, index) ==
    SubSeq(arr, 1, index) \o SubSeq(arr, index + 2, Len(arr))

(***************************************************************************)
(* Entity.constructor.  `serial` stands for the identity of the object     *)
(* built: two objects built with the same instance string are different    *)
(* objects.                                                                *)
(***************************************************************************)
Entity(serial, id, instance, x, y) ==
    [ serial |-> serial,
      id |-> id,
      instance |-> instance,
      x |-> x,
      y |-> y,
      oldX |-> x,
      oldY |-> y,
      dead |-> FALSE,
      invisibles |-> EmptyMap,
      invisiblesIds |-> <<>>,
      setPositionCallback |-> NoCallback ]

\* The world with one Entity built per instance string.
Built(ids, xs, ys) ==
    [e \in Instances |-> Entity(1, ids[e], e, xs[e], ys[e])]

\* An entity of a given type whose public fields specialState and
\* customScale have been assigned.  Undefined is the value of a field that
\* was never assigned; customScale 0 is as falsy as an unassigned one.
Undefined == "absent"
Types == {"mob", "npc", "item", "player"}
SpecialStates ==
    {"boss", "miniboss", "achievementNpc", "area", "questNpc", "questMob"}
Scales == {0, 2}

Typed(entity, type, specialState, customScale) ==
    [ k \in (DOMAIN entity) \cup {"type", "specialState", "customScale"} |->
        CASE k = "type" -> type
          [] k = "specialState" -> specialState
          [] k = "customScale" -> customScale
          [] OTHER -> entity[k] ]

\* The slot of an instance string no live entity holds.
Blank(instance) == Entity(0, 0, instance, 0, 0)

(***************************************************************************)
(* Movement.  Each method is preceded by the faulty variants of it that    *)
(* the properties below are required to tell apart from it (the same holds *)
(* for the other sections).                                                *)
(***************************************************************************)
setPositionOldToo(w, self, x, y) ==
    [w EXCEPT ![self].oldX = w[self].x, ![self].oldY = w[self].y,
              ![self].x = x, ![self].y = y]

setPosition(w, self, x, y) ==
    [w EXCEPT ![self].x = x, ![self].y = y]

\* The callback setPosition invokes after the assignment, if one is set.
setPositionNotifies(w, self) == w[self].setPositionCallback

\* The callback invocations one setPosition(x, y) call makes, in order, each
\* with the coordinates the entity holds when the callback runs.
setPositionCallsEarly(w, self, x, y) ==
    IF w[self].setPositionCallback # NoCallback
    THEN << [callback |-> w[self].setPositionCallback,
             x |-> w[self].x, y |-> w[self].y] >>
    ELSE <<>>

setPositionCalls(w, self, x, y) ==
    LET assigned == setPosition(w, self, x, y)
    IN  IF assigned[self].setPositionCallback # NoCallback
        THEN << [callback |-> assigned[self].setPositionCallback,
                 x |-> assigned[self].x, y |-> assigned[self].y] >>
        ELSE <<>>

updatePositionXOnly(w, self) ==
    [w EXCEPT ![self].oldX = w[self].x]

updatePositionSwap(w, self) ==
    [w EXCEPT ![self].oldX = w[self].x, ![self].oldY = w[self].y,
              ![self].x = w[self].oldX, ![self].y = w[self].oldY]

updatePosition(w, self) ==
    [w EXCEPT ![self].oldX = w[self].x, ![self].oldY = w[self].y]

onSetPosition(w, self, callback) ==
    [w EXCEPT ![self].setPositionCallback = callback]

\* The death transition: the `dead` field (line 26) is public and written by
\* the entity's owner; the class itself only initialises it.
markDead(w, self) == [w EXCEPT ![self].dead = TRUE]

(***************************************************************************)
(* Visibility override lists.                                              *)
(***************************************************************************)
\* The value stored under the key is the entity object itself: its serial.
addInvisibleBoth(w, self, entity) ==
    [w EXCEPT ![self].invisibles = MapSet(@, w[entity].instance, w[entity].serial),
              ![entity].invisibles = MapSet(@, w[self].instance, w[self].serial)]

addInvisible(w, self, entity) ==
    [w EXCEPT ![self].invisibles = MapSet(@, w[entity].instance, w[entity].serial)]

addInvisibleId(w, self, entityId) ==
    [w EXCEPT ![self].invisiblesIds = Append(@, entityId)]

removeInvisibleKeeps(w, self, entity) == w

removeInvisibleAndId(w, self, entity) ==
    [w EXCEPT ![self].invisibles = MapDelete(@, w[entity].instance),
              ![self].invisiblesIds = SelectSeq(@, LAMBDA i : i # w[entity].id)]

removeInvisible(w, self, entity) ==
    [w EXCEPT ![self].invisibles = MapDelete(@, w[entity].instance)]

\* Array.prototype.splice(-1, 1) removes the last element.
removeInvisibleIdNoCheck(w, self, entityId) ==
    LET index == indexOf(w[self].invisiblesIds, entityId)
    IN  IF index > -1
        THEN [w EXCEPT ![self].invisiblesIds = splice1(@, index)]
        ELSE [w EXCEPT ![self].invisiblesIds = SubSeq(@, 1, Len(@) - 1)]

removeInvisibleId(w, self, entityId) ==
    LET index == indexOf(w[self].invisiblesIds, entityId)
    IN  IF index > -1
        THEN [w EXCEPT ![self].invisiblesIds = splice1(@, index)]
        ELSE w

hasInvisible(w, self, entity) == w[entity].instance \in DOMAIN w[self].invisibles

hasInvisibleId(w, self, entityId) == indexOf(w[self].invisiblesIds, entityId) > -1

hasInvisibleInstance(w, self, instance) == instance \in DOMAIN w[self].invisibles

(***************************************************************************)
(* Capability hook.  The outcome of a call: whether it threw, and          *)
(* otherwise the value it returned.                                        *)
(***************************************************************************)
Threw(message) == [threw |-> TRUE, message |-> message, ret |-> FALSE]
Returned(value) == [threw |-> FALSE, message |-> "", ret |-> value]

canAggroFalse(w, self, player) == Returned(FALSE)

canAggroTrue(w, self, player) == Returned(TRUE)

canAggro(w, self, player) == Threw("Method not implemented.")

(***************************************************************************)
(* State snapshot.  The label and name tables (Mobs, NPCs, Items) are not  *)
(* part of the sources: they are modelled as tables with an entry for the  *)
(* ids in Known, and a lookup of any other id either returns null or       *)
(* throws, whichever the caller of getState is given.                      *)
(***************************************************************************)
Null == "null"
Known == {1}
Misses == {"null", "throw"}
Labels == [mob |-> "skeleton", npc |-> "villager", item |-> "sword"]
Names == [mob |-> "Skeleton", npc |-> "Villager", item |-> "Sword"]

idToString(table, id, miss) ==
    IF id \in Known THEN Returned(Labels[table])
    ELSE IF miss = "throw" THEN Threw("TypeError")
    ELSE Returned(Null)

idToName(table, id, miss) ==
    IF id \in Known THEN Returned(Names[table])
    ELSE IF miss = "throw" THEN Threw("TypeError")
    ELSE Returned(Null)

isMob(w, self) == w[self].type = "mob"
isNPC(w, self) == w[self].type = "npc"
isItem(w, self) == w[self].type = "item"
isPlayer(w, self) == w[self].type = "player"

getNameColourFallsThrough(w, self) ==
    CASE w[self].specialState = "boss" -> "#660033"
      [] w[self].specialState = "miniboss" -> "#cc3300"
      [] w[self].specialState = "achievementNpc" -> "#669900"
      [] w[self].specialState = "area" -> "#00aa00"
      [] w[self].specialState = "questNpc" -> "#0099cc"
      [] w[self].specialState = "questMob" -> "#0099cc"
      [] OTHER -> Undefined

getNameColour(w, self) ==
    CASE w[self].specialState = "boss" -> "#660033"
      [] w[self].specialState = "miniboss" -> "#cc3300"
      [] w[self].specialState = "achievementNpc" -> "#669900"
      [] w[self].specialState = "area" -> "#00aa00"
      [] w[self].specialState = "questNpc" -> "#6699ff"
      [] w[self].specialState = "questMob" -> "#0099cc"
      [] OTHER -> Undefined

\* The table getState consults for the entity.
getStateTable(w, self) ==
    IF isMob(w, self) THEN "mob" ELSE IF isNPC(w, self) THEN "npc" ELSE "item"

getState(w, self, miss) ==
    LET string == idToString(getStateTable(w, self), w[self].id, miss)
        name == idToName(getStateTable(w, self), w[self].id, miss)
        data == [ type |-> w[self].type,
                  id |-> w[self].instance,
                  string |-> string.ret,
                  name |-> name.ret,
                  x |-> w[self].x,
                  y |-> w[self].y ]
        coloured == IF w[self].specialState # Undefined
                    THEN MapSet(data, "nameColour", getNameColour(w, self))
                    ELSE data
        scaled == IF w[self].customScale # 0
                  THEN MapSet(coloured, "customScale", w[self].customScale)
                  ELSE coloured
    IN  IF string.threw THEN string
        ELSE IF name.threw THEN name
        ELSE Returned(scaled)

(***************************************************************************)
(* Spatial queries.                                                        *)
(***************************************************************************)
abs(n) == IF n < 0 THEN -n ELSE n

getDistanceSigned(w, self, entity) ==
    LET x == w[self].x - w[entity].x
        y == w[self].y - w[entity].y
    IN  IF x > y THEN x ELSE y

getDistance(w, self, entity) ==
    LET x == abs(w[self].x - w[entity].x)
        y == abs(w[self].y - w[entity].y)
    IN  IF x > y THEN x ELSE y

getCoordDistance(w, self, toX, toY) ==
    LET x == abs(w[self].x - toX)
        y == abs(w[self].y - toY)
    IN  IF x > y THEN x ELSE y

isNearStrict(w, self, entity, distance) ==
    LET dx == abs(w[self].x - w[entity].x)
        dy == abs(w[self].y - w[entity].y)
    IN  dx < distance /\ dy < distance

isNear(w, self, entity, distance) ==
    LET dx == abs(w[self].x - w[entity].x)
        dy == abs(w[self].y - w[entity].y)
    IN  dx <= distance /\ dy <= distance

isSurrounding(w, self, entity) == getDistance(w, self, entity) < 2

isNonDiagonalAnywhere(w, self, entity) ==
    ~(w[entity].x # w[self].x /\ w[entity].y # w[self].y)

isNonDiagonal(w, self, entity) ==
    /\ isSurrounding(w, self, entity)
    /\ ~(w[entity].x # w[self].x /\ w[entity].y # w[self].y)

(***************************************************************************)
(* The record of a call kept in `last`.                                    *)
(*   target    the entity argument (an instance), or NoInstance            *)
(*   num       the id argument, or 0                                       *)
(*   ax, ay    the coordinate arguments of setPosition; for updatePosition *)
(*             the (oldX, oldY) it overwrote                               *)
(*   pre       what the matching query answered just before the call       *)
(*   paired    removeInvisible only: the call before it was addInvisible   *)
(*             of the same entity on the same owner                        *)
(*   before    when paired: what hasInvisible answered before that add     *)
(*   out       the outcome of a call that returns or throws                *)
(*   notified  the callback the call invoked, or NoCallback                *)
(*   cb        the callback argument of onSetPosition                      *)
(*   calls     the callback invocations the call made, in order            *)
(***************************************************************************)
NoOutcome == Returned(FALSE)

Call(op, self) ==
    [ op |-> op, self |-> self, target |-> NoInstance, num |-> 0,
      ax |-> 0, ay |-> 0, pre |-> FALSE, paired |-> FALSE, before |-> FALSE,
      out |-> NoOutcome, notified |-> NoCallback, cb |-> NoCallback,
      calls |-> <<>>, table |-> NoInstance ]

(***************************************************************************)
(* Actions: one per method call.                                           *)
(***************************************************************************)
AddInvisible(self, entity) ==
    /\ self \in live /\ entity \in live
    /\ entities' = addInvisible(entities, self, entity)
    /\ last' = [Call("addInvisible", self) EXCEPT
                    !.target = entity,
                    !.pre = hasInvisible(entities, self, entity)]
    /\ UNCHANGED <<live, spawned, clean, committed>>
    /\ UNCHANGED audio

AddInvisibleId(self, entityId) ==
    /\ self \in live
    /\ Len(entities[self].invisiblesIds) < MaxIdsLen
    /\ entities' = addInvisibleId(entities, self, entityId)
    /\ last' = [Call("addInvisibleId", self) EXCEPT
                    !.num = entityId,
                    !.pre = hasInvisibleId(entities, self, entityId)]
    /\ UNCHANGED <<live, spawned, clean, committed>>
    /\ UNCHANGED audio

RemoveInvisible(self, entity) ==
    /\ self \in live /\ entity \in live
    /\ entities' = removeInvisible(entities, self, entity)
    /\ LET paired == /\ last.op = "addInvisible"
                      /\ last.self = self
                      /\ last.target = entity
       IN  last' = [Call("removeInvisible", self) EXCEPT
                       !.target = entity,
                       !.pre = hasInvisible(entities, self, entity),
                       !.paired = paired,
                       !.before = paired /\ last.pre]
    /\ UNCHANGED <<live, spawned, clean, committed>>
    /\ UNCHANGED audio

RemoveInvisibleId(self, entityId) ==
    /\ self \in live
    /\ entities' = removeInvisibleId(entities, self, entityId)
    /\ last' = [Call("removeInvisibleId", self) EXCEPT
                    !.num = entityId,
                    !.pre = hasInvisibleId(entities, self, entityId)]
    /\ UNCHANGED <<live, spawned, clean, committed>>
    /\ UNCHANGED audio

SetPosition(self, x, y) ==
    /\ self \in live
    /\ entities' = setPosition(entities, self, x, y)
    /\ clean' = [clean EXCEPT ![self] = FALSE]
    /\ last' = [Call("setPosition", self) EXCEPT
                    !.ax = x, !.ay = y,
                    !.notified = setPositionNotifies(entities', self),
                    !.calls = setPositionCalls(entities, self, x, y),
                    !.paired = /\ last.op = "onSetPosition"
                               /\ last.self = self
                               /\ last.pre]
    /\ UNCHANGED <<live, spawned, committed>>
    /\ UNCHANGED audio

UpdatePosition(self) ==
    /\ self \in live
    /\ entities' = updatePosition(entities, self)
    /\ clean' = [clean EXCEPT ![self] = TRUE]
    /\ last' = [Call("updatePosition", self) EXCEPT
                    !.ax = entities[self].oldX, !.ay = entities[self].oldY,
                    !.pre = clean[self]]
    /\ committed' = [committed EXCEPT
                         ![self] = <<entities[self].x, entities[self].y>>]
    /\ UNCHANGED <<live, spawned>>
    /\ UNCHANGED audio

\* pre: the call replaces a different callback registered earlier.
OnSetPosition(self, callback) ==
    /\ self \in live
    /\ entities' = onSetPosition(entities, self, callback)
    /\ last' = [Call("onSetPosition", self) EXCEPT
                    !.cb = callback,
                    !.pre = /\ entities[self].setPositionCallback # NoCallback
                            /\ entities[self].setPositionCallback # callback]
    /\ UNCHANGED <<live, spawned, clean, committed>>
    /\ UNCHANGED audio

MarkDead(self) ==
    /\ self \in live
    /\ ~entities[self].dead
    /\ entities' = markDead(entities, self)
    /\ last' = Call("markDead", self)
    /\ UNCHANGED <<live, spawned, clean, committed>>
    /\ UNCHANGED audio

CanAggro(self, player) ==
    /\ self \in live /\ player \in live
    /\ last' = [Call("canAggro", self) EXCEPT
                    !.target = player,
                    !.out = canAggro(entities, self, player)]
    /\ UNCHANGED <<entities, live, spawned, clean, committed>>
    /\ UNCHANGED audio

GetState(self, miss) ==
    /\ self \in live
    /\ last' = [Call("getState", self) EXCEPT
                    !.table = getStateTable(entities, self),
                    !.out = getState(entities, self, miss)]
    /\ UNCHANGED <<entities, live, spawned, clean, committed>>
    /\ UNCHANGED audio

GetDistance(self, entity) ==
    /\ self \in live /\ entity \in live
    /\ last' = [Call("getDistance", self) EXCEPT
                    !.target = entity,
                    !.out = Returned(getDistance(entities, self, entity))]
    /\ UNCHANGED <<entities, live, spawned, clean, committed>>
    /\ UNCHANGED audio

GetCoordDistance(self, toX, toY) ==
    /\ self \in live
    /\ last' = [Call("getCoordDistance", self) EXCEPT
                    !.ax = toX, !.ay = toY,
                    !.out = Returned(getCoordDistance(entities, self, toX, toY))]
    /\ UNCHANGED <<entities, live, spawned, clean, committed>>
    /\ UNCHANGED audio

IsNear(self, entity, distance) ==
    /\ self \in live /\ entity \in live
    /\ last' = [Call("isNear", self) EXCEPT
                    !.target = entity, !.num = distance,
                    !.out = Returned(isNear(entities, self, entity, distance))]
    /\ UNCHANGED <<entities, live, spawned, clean, committed>>
    /\ UNCHANGED audio

IsSurrounding(self, entity) ==
    /\ self \in live /\ entity \in live
    /\ last' = [Call("isSurrounding", self) EXCEPT
                    !.target = entity,
                    !.out = Returned(isSurrounding(entities, self, entity))]
    /\ UNCHANGED <<entities, live, spawned, clean, committed>>
    /\ UNCHANGED audio

IsNonDiagonal(self, entity) ==
    /\ self \in live /\ entity \in live
    /\ last' = [Call("isNonDiagonal", self) EXCEPT
                    !.target = entity,
                    !.out = Returned(isNonDiagonal(entities, self, entity))]
    /\ UNCHANGED <<entities, live, spawned, clean, committed>>
    /\ UNCHANGED audio

(***************************************************************************)
(* The Audio object (client).                                              *)
(*                                                                         *)
(* A volume is a JavaScript number.  Every volume the object computes is a *)
(* multiple of 2^-58, so a volume is kept as the pair <<hi, lo>> of the    *)
(* integer hi * Base + lo that counts these units, and sums and            *)
(* differences are rounded to 53 significant bits, ties to even, as the    *)
(* arithmetic of doubles rounds them.                                      *)
(***************************************************************************)
Base == 2^29

ulp(hi) ==
    IF hi < 2^24 THEN 1
    ELSE IF hi < 2^25 THEN 2
    ELSE IF hi < 2^26 THEN 4
    ELSE IF hi < 2^27 THEN 8
    ELSE IF hi < 2^28 THEN 16
    ELSE IF hi < 2^29 THEN 32
    ELSE 64

round(hi, lo) ==
    LET u == ulp(hi)
        r == lo % u
        down == lo - r
        up == (2 * r > u) \/ (2 * r = u /\ (down \div u) % 2 = 1)
        rounded == IF up THEN down + u ELSE down
    IN  IF rounded = Base THEN <<hi + 1, 0>> ELSE <<hi, rounded>>

plus(a, b) ==
    round(a[1] + b[1] + ((a[2] + b[2]) \div Base), (a[2] + b[2]) % Base)

\* a - b, for a >= b
minus(a, b) ==
    IF a[2] < b[2] THEN round(a[1] - b[1] - 1, a[2] - b[2] + Base)
    ELSE round(a[1] - b[1], a[2] - b[2])

less(a, b) == a[1] < b[1] \/ (a[1] = b[1] /\ a[2] < b[2])

Silent == <<0, 0>>                      \* 0
FullVolume == <<536870912, 0>>          \* 1
FadeInStep == <<10737418, 128849019>>   \* 0.02
FadeOutStep == <<42949672, 515396076>>  \* 0.08
Quiet == <<21474836, 257698038>>        \* 4 / 100
Low == <<85899345, 493921240>>          \* 0.16

(***************************************************************************)
(* audio.elements are the audio elements parse has created, in order of    *)
(* creation; a Song is the number of its element, NoSong is null.  An      *)
(* element carries its volume, whether it is paused, its readyState, the   *)
(* two markers fadingIn and fadingOut (0 for a marker that is null or was  *)
(* never assigned, otherwise the id of the timer it was given), the name   *)
(* it was parsed for, and whether it carries the listeners of parse.       *)
(* audio.audibles maps the names parse was called with to the elements of  *)
(* the name, NoAudibles for a name whose audibles are null.                *)
(* Its currentTime, loop and ended are not kept: the clones parse makes    *)
(* are never played, so that get returns the first element of a name       *)
(* whatever they are.  audio.timers are the timers that have been set and  *)
(* have neither fired nor been cleared.  Two fields of an element are      *)
(* history: fade is the callback of the fade-out started on it (NoFade     *)
(* when none was started since it last faded in or was played),            *)
(* completions counts the calls of that callback.                          *)
(***************************************************************************)
MusicKeys ==
    {"codingroom", "smalltown", "village", "beach", "spookyship",
     "meadowofthepast"}
SoundKeys ==
    {"loot", "hit1", "hit2", "hurt", "heal", "chat", "revive", "death",
     "firefox", "achievement", "kill1", "kill2", "noloot", "teleport", "chest",
     "npc", "npc-end"}

\* The names the methods are called with: a music file, and a name that is
\* no file.
SongNames == {"village"}
NoFile == "nofile"
FileNames == SongNames \cup {NoFile}
AudioTypes == {"Music", "SFX"}
NoSong == 0
NoName == "null"
NoAudibles == <<>>
NoFade == "no fade"
FadeCallbacks == {"resetThisSong", "resetSong", "stopSong"}
MusicVolumes == {Quiet, FullVolume}
Volumes == {Low}
MusicChannels == 1
SoundChannels == 4

\* What the Audio object reads of the game and the browser when called:
\* all is well, or one thing is not.
Well ==
    [ soundEnabled |-> TRUE, dead |-> FALSE, safari |-> FALSE,
      mobile |-> FALSE, sfx |-> Low ]

Envs ==
    { Well,
      [Well EXCEPT !.soundEnabled = FALSE],
      [Well EXCEPT !.dead = TRUE],
      [Well EXCEPT !.safari = TRUE],
      [Well EXCEPT !.mobile = TRUE] }

Song(name, listening) ==
    [ volume |-> FullVolume, paused |-> TRUE, readyState |-> 0,
      fadingIn |-> 0, fadingOut |-> 0, src |-> name, listening |-> listening,
      fade |-> NoFade, completions |-> 0 ]

load(a) ==
    [a EXCEPT !.music = [name \in MusicKeys |-> FALSE],
              !.sounds = [name \in SoundKeys |-> FALSE]]

Constructed(music) ==
    load([ song |-> NoSong,
           songName |-> NoName,
           enabled |-> TRUE,
           elements |-> <<>>,
           audibles |-> [name \in {} |-> NoAudibles],
           music |-> Undefined,
           sounds |-> Undefined,
           timers |-> {},
           nextTimer |-> 1,
           musicVolume |-> music ])

getMusicVolume(a) == a.musicVolume

getSFXVolume(a, env) == env.sfx

isEnabled(a, env) == env.soundEnabled /\ a.enabled

fileExists(a, name) == name \in DOMAIN a.music \/ name \in DOMAIN a.sounds

parse(a, name, channels) ==
    LET first == Len(a.elements) + 1
        created == [i \in 1..channels |-> Song(name, i = 1)]
        sounds == [i \in 1..channels |-> first + i - 1]
        parsed == [a EXCEPT !.elements = @ \o created,
                            !.audibles = [n \in DOMAIN @ \cup {name} |->
                                             IF n = name THEN sounds ELSE @[n]]]
    IN  IF name \in DOMAIN a.music THEN [parsed EXCEPT !.music[name] = TRUE]
        ELSE IF name \in DOMAIN a.sounds THEN [parsed EXCEPT !.sounds[name] = TRUE]
        ELSE parsed

\* The error listener parse puts on the first element of a name.
parseError(a, song) ==
    [a EXCEPT !.audibles[a.elements[song].src] = NoAudibles]

\* window.setTimeout: one pending timer, which fires once.
setTimeout(a, kind, song, callback) ==
    [a EXCEPT !.timers = @ \cup {[id |-> a.nextTimer, kind |-> kind,
                                  song |-> song, callback |-> callback]},
              !.nextTimer = @ + 1]

\* clearInterval and clearTimeout share one pool of ids.
clearInterval(a, id) == [a EXCEPT !.timers = {t \in @ : t.id # id}]

clearFadeIn(a, song) ==
    IF a.elements[song].fadingIn # 0
    THEN [clearInterval(a, a.elements[song].fadingIn) EXCEPT
              !.elements[song].fadingIn = 0]
    ELSE a

clearFadeOut(a, song) ==
    IF a.elements[song].fadingOut # 0
    THEN [clearInterval(a, a.elements[song].fadingOut) EXCEPT
              !.elements[song].fadingOut = 0,
              !.elements[song].fade = NoFade]
    ELSE a

reset(a, song) ==
    IF song = NoSong \/ ~(a.elements[song].readyState > 0) THEN a
    ELSE [a EXCEPT !.elements[song].paused = TRUE]

get(a, name) ==
    IF name \notin DOMAIN a.audibles \/ a.audibles[name] = NoAudibles
    THEN NoSong
    ELSE Head(a.audibles[name])

\* Song.name, which nothing assigns.
nameOf(a, song) == Undefined

fadeInKeepsFadeOut(a, song) ==
    IF song = NoSong \/ a.elements[song].fadingIn # 0 THEN a
    ELSE [setTimeout(a, "fadeIn", song, NoCallback) EXCEPT
              !.elements[song].fadingIn = a.nextTimer,
              !.elements[song].fade = NoFade]

fadeIn(a, song) ==
    IF song = NoSong \/ a.elements[song].fadingIn # 0 THEN a
    ELSE [setTimeout(clearFadeOut(a, song), "fadeIn", song, NoCallback) EXCEPT
              !.elements[song].fadingIn = a.nextTimer,
              !.elements[song].fade = NoFade]

fadeOut(a, song, callback) ==
    IF song = NoSong \/ a.elements[song].fadingOut # 0 THEN a
    ELSE [setTimeout(clearFadeIn(a, song), "fadeOut", song, callback) EXCEPT
              !.elements[song].fadingOut = a.nextTimer,
              !.elements[song].fade = callback,
              !.elements[song].completions = 0]

fadeSongOut(a) ==
    IF a.song = NoSong THEN a
    ELSE [fadeOut(a, a.song, "resetSong") EXCEPT !.song = NoSong]

stop(a) ==
    IF a.song = NoSong THEN a ELSE fadeOut(a, a.song, "stopSong")

play(a, type, name, env) ==
    IF ~isEnabled(a, env) \/ ~fileExists(a, name) \/ env.dead THEN a
    ELSE IF env.safari THEN a
    ELSE IF type = "Music" THEN
        LET faded == fadeOut(a, a.song, "resetThisSong")
            song == get(faded, name)
            started == [faded EXCEPT !.elements[song].volume = Silent,
                                     !.elements[song].paused = FALSE,
                                     !.elements[song].fade = NoFade]
        IN  IF song = NoSong THEN faded
            ELSE [fadeIn(started, song) EXCEPT !.song = song]
    ELSE
        LET parsed == IF ~(name \in DOMAIN a.sounds /\ a.sounds[name])
                      THEN parse(a, name, SoundChannels)
                      ELSE a
            sound == get(parsed, name)
        IN  IF sound = NoSong THEN parsed
            ELSE [parsed EXCEPT !.elements[sound].volume = getSFXVolume(a, env),
                                !.elements[sound].paused = FALSE]

\* Reading the name of this.song throws when this.song is null.
update(a, newSong, env) ==
    IF ~isEnabled(a, env) THEN a
    ELSE IF a.song = NoSong THEN a
    ELSE IF newSong = nameOf(a, a.song) THEN a
    ELSE
        LET out == IF env.mobile THEN reset(a, a.song) ELSE fadeSongOut(a)
            parsed == IF newSong \in DOMAIN out.music /\ ~out.music[newSong]
                      THEN parse(out, newSong, MusicChannels)
                      ELSE out
            played == IF ~(nameOf(a, a.song) = newSong)
                      THEN play(parsed, "Music", newSong, env)
                      ELSE out
        IN  [played EXCEPT !.songName = newSong]

\* Assigning to the volume of this.song throws when this.song is null.
setSongVolume(a, volume) ==
    IF a.song = NoSong THEN a
    ELSE [a EXCEPT !.elements[a.song].volume = volume]

\* The callbacks handed to fadeOut by play, fadeSongOut and stop.
callbackOf(a, callback, song) ==
    CASE callback = "resetThisSong" -> reset(a, a.song)
      [] callback = "resetSong" -> reset(a, song)
      [] callback = "stopSong" -> [reset(a, a.song) EXCEPT !.song = NoSong]

\* The function fadeIn hands to setTimeout.  Assigning a volume above 1
\* throws, which ends the function.
fadeInTick(a, song) ==
    LET volume == plus(a.elements[song].volume, FadeInStep)
        reached == \/ less(getMusicVolume(a), FadeInStep)
                   \/ ~less(volume, minus(getMusicVolume(a), FadeInStep))
    IN  IF less(FullVolume, volume) THEN a
        ELSE IF reached
        THEN clearFadeIn([a EXCEPT !.elements[song].volume = getMusicVolume(a)],
                         song)
        ELSE [a EXCEPT !.elements[song].volume = volume]

\* The function fadeOut hands to setTimeout.  Assigning a volume below 0
\* throws, which ends the function.
fadeOutTick(a, song, callback) ==
    LET volume == minus(a.elements[song].volume, FadeOutStep)
        silent == [a EXCEPT !.elements[song].volume = Silent]
        called == IF callback # NoCallback
                  THEN [callbackOf(silent, callback, song) EXCEPT
                            !.elements[song].completions = @ + 1]
                  ELSE silent
    IN  IF less(a.elements[song].volume, FadeOutStep) THEN a
        ELSE IF ~less(FadeOutStep, volume)
        THEN clearInterval(called, called.elements[song].fadingOut)
        ELSE [a EXCEPT !.elements[song].volume = volume]

\* The songs a caller can hand to a method: this.song and what get returns.
Held(a) == ({a.song} \cup {get(a, name) : name \in FileNames}) \ {NoSong}

\* The calls of parse so far: each gave its listeners to one element.  No
\* call creates more than SoundChannels elements.
Parses(a) == Cardinality({song \in 1..Len(a.elements) : a.elements[song].listening})
MaxElements == MaxParses * SoundChannels

\* The calls the bounds leave: those after which parse has been called no
\* more than MaxParses times.
Bounded(a) == Parses(a) <= MaxParses

Load ==
    /\ audio' = load(audio)
    /\ UNCHANGED entityVars

\* parse is called for a music file that is not marked as parsed, as
\* update calls it.
Parse(name, channels) ==
    /\ ~audio.music[name]
    /\ Bounded(parse(audio, name, channels))
    /\ audio' = parse(audio, name, channels)
    /\ UNCHANGED entityVars

\* The element has loaded far enough to play through: the event listener
\* parse puts on the first element of a name runs (no caller of parse hands
\* it a callback).
CanPlayThrough(song) ==
    /\ song \in 1..Len(audio.elements)
    /\ audio.elements[song].listening
    /\ audio.elements[song].readyState = 0
    /\ audio' = [audio EXCEPT !.elements[song].readyState = 4]
    /\ UNCHANGED entityVars

\* The element could not be loaded.
LoadError(song) ==
    /\ song \in 1..Len(audio.elements)
    /\ audio.elements[song].listening
    /\ audio.elements[song].readyState = 0
    /\ audio' = parseError(audio, song)
    /\ UNCHANGED entityVars

Play(type, name, env) ==
    /\ audio.nextTimer + 1 <= MaxTimers
    /\ Bounded(play(audio, type, name, env))
    /\ audio' = play(audio, type, name, env)
    /\ UNCHANGED entityVars

Update(newSong, env) ==
    /\ audio.nextTimer + 1 <= MaxTimers
    /\ Bounded(update(audio, newSong, env))
    /\ audio' = update(audio, newSong, env)
    /\ UNCHANGED entityVars

FadeIn(song) ==
    /\ song \in Held(audio) \cup {NoSong}
    /\ audio.nextTimer <= MaxTimers
    /\ audio' = fadeIn(audio, song)
    /\ UNCHANGED entityVars

FadeOut(song, callback) ==
    /\ song \in Held(audio) \cup {NoSong}
    /\ audio.nextTimer <= MaxTimers
    /\ audio' = fadeOut(audio, song, callback)
    /\ UNCHANGED entityVars

FadeSongOut ==
    /\ audio.nextTimer <= MaxTimers
    /\ audio' = fadeSongOut(audio)
    /\ UNCHANGED entityVars

Stop ==
    /\ audio.nextTimer <= MaxTimers
    /\ audio' = stop(audio)
    /\ UNCHANGED entityVars

ClearFadeIn(song) ==
    /\ song \in Held(audio)
    /\ audio' = clearFadeIn(audio, song)
    /\ UNCHANGED entityVars

ClearFadeOut(song) ==
    /\ song \in Held(audio)
    /\ audio' = clearFadeOut(audio, song)
    /\ UNCHANGED entityVars

Reset(song) ==
    /\ song \in Held(audio) \cup {NoSong}
    /\ audio' = reset(audio, song)
    /\ UNCHANGED entityVars

SetSongVolume(volume) ==
    /\ audio' = setSongVolume(audio, volume)
    /\ UNCHANGED entityVars

TimerFires(id) ==
    /\ \E t \in audio.timers : t.id = id
    /\ audio' = LET t == CHOOSE t \in audio.timers : t.id = id
                    fired == [audio EXCEPT !.timers = @ \ {t}]
                IN  IF t.kind = "fadeIn" THEN fadeInTick(fired, t.song)
                    ELSE fadeOutTick(fired, t.song, t.callback)
    /\ UNCHANGED entityVars

(***************************************************************************)
(* Lifecycle (spec section 3 and 5; the world that spawns and despawns     *)
(* entities is outside the class).  Destroy takes the entity out of the    *)
(* world.  The class has no method for it and keeps no record of who lists *)
(* an entity: the constructor takes any instance string, addInvisible      *)
(* stores any entity it is given, one that has left the world included,    *)
(* and an entry goes only when someone calls removeInvisible.              *)
(***************************************************************************)
PurgeDone(instance) ==
    \A other \in live : ~hasInvisibleInstance(entities, other, instance)

Destroy(self) ==
    /\ self \in live
    /\ live' = live \ {self}
    /\ entities' = [entities EXCEPT ![self] = Blank(self)]
    /\ clean' = [clean EXCEPT ![self] = FALSE]
    /\ committed' = [committed EXCEPT ![self] = <<0, 0>>]
    /\ last' = Call("destroy", self)
    /\ UNCHANGED spawned
    /\ UNCHANGED audio

\* addInvisible with an entity the caller holds: the one that has the
\* instance string now, or one that had it before and has left the world
\* (the caller's own predecessor included).  TheHeld is the place of that
\* entity beside the entities of the world; addInvisible reads its instance
\* and stores the object.
TheHeld == "held"

AddInvisibleHeld(self, instance, serial) ==
    /\ self \in live
    /\ serial \in 1..spawned[instance]
    /\ LET world == [e \in Instances \cup {TheHeld} |->
                        IF e = TheHeld THEN Entity(serial, 0, instance, 0, 0)
                        ELSE entities[e]]
       IN  entities' = [entities EXCEPT
                            ![self] = addInvisible(world, self, TheHeld)[self]]
    /\ last' = [Call("addInvisible", self) EXCEPT
                    !.target = instance,
                    !.num = serial,
                    !.pre = hasInvisibleInstance(entities, self, instance)]
    /\ UNCHANGED <<live, spawned, clean, committed>>
    /\ UNCHANGED audio

\* removeInvisible with an entity that has left the world.
PurgeStep(self, entity) ==
    /\ self \in live /\ entity \notin live
    /\ hasInvisibleInstance(entities, self, entity)
    /\ entities' = removeInvisible(entities, self, entity)
    /\ last' = [Call("purge", self) EXCEPT !.target = entity, !.pre = TRUE]
    /\ UNCHANGED <<live, spawned, clean, committed>>
    /\ UNCHANGED audio

\* new Entity(id, type, instance, x, y), for an instance string no entity
\* of the world has.
Create(instance, id, x, y) ==
    /\ instance \notin live
    /\ spawned[instance] < MaxSerial
    /\ spawned' = [spawned EXCEPT ![instance] = @ + 1]
    /\ entities' = [entities EXCEPT
                        ![instance] = Entity(spawned'[instance], id, instance, x, y)]
    /\ live' = live \cup {instance}
    /\ clean' = [clean EXCEPT ![instance] = FALSE]
    /\ committed' = [committed EXCEPT ![instance] = <<x, y>>]
    /\ last' = [Call("create", instance) EXCEPT
                    !.num = id, !.ax = x, !.ay = y]
    /\ UNCHANGED audio

InitLifecycle ==
    /\ entities = Built([e \in Instances |-> 1],
                        [e \in Instances |-> 0], [e \in Instances |-> 0])
    /\ live = Instances
    /\ spawned = [e \in Instances |-> 1]
    /\ clean = [e \in Instances |-> FALSE]
    /\ committed = [e \in Instances |-> <<0, 0>>]
    /\ last = Call("new", NoInstance)
    /\ audio = Constructed(FullVolume)

NextLifecycle ==
    \/ \E self \in Instances, instance \in Instances, serial \in 1..MaxSerial :
           AddInvisibleHeld(self, instance, serial)
    \/ \E self \in Instances, entity \in Instances : RemoveInvisible(self, entity)
    \/ \E self \in Instances : Destroy(self)
    \/ \E self \in Instances, entity \in Instances : PurgeStep(self, entity)
    \/ \E instance \in Instances, id \in Ids : Create(instance, id, 0, 0)

\* Nothing schedules a removal: no step is forced.
SpecLifecycle == InitLifecycle /\ [][NextLifecycle]_vars

(***************************************************************************)
(* The visibility specification: every entity of the world is built, with  *)
(* an id of its species, and the four visibility edits are applied in any  *)
(* order by any owner to any target.                                       *)
(***************************************************************************)
InitVisibility ==
    /\ \E ids \in [Instances -> Ids] :
           entities = Built(ids, [e \in Instances |-> 0], [e \in Instances |-> 0])
    /\ live = Instances
    /\ spawned = [e \in Instances |-> 1]
    /\ clean = [e \in Instances |-> FALSE]
    /\ committed = [e \in Instances |-> <<entities[e].x, entities[e].y>>]
    /\ last = Call("new", NoInstance)
    /\ audio = Constructed(FullVolume)

NextVisibility ==
    \/ \E self \in Instances, entity \in Instances : AddInvisible(self, entity)
    \/ \E self \in Instances, entityId \in Ids : AddInvisibleId(self, entityId)
    \/ \E self \in Instances, entity \in Instances : RemoveInvisible(self, entity)
    \/ \E self \in Instances, entityId \in Ids : RemoveInvisibleId(self, entityId)

SpecVisibility == InitVisibility /\ [][NextVisibility]_vars

(***************************************************************************)
(* The movement specification: the entities are built at any cells of the  *)
(* grid, each already hiding the other entities by instance and its own    *)
(* species by id, and are then moved, committed, killed and asked for      *)
(* aggro in any order.                                                     *)
(***************************************************************************)
HideAll(w) ==
    [e \in Instances |->
        [w[e] EXCEPT !.invisibles = [k \in Instances \ {e} |-> w[k].serial],
                     !.invisiblesIds = <<w[e].id>>]]

InitMove ==
    /\ \E xs \in [Instances -> Coord], ys \in [Instances -> Coord] :
           entities = HideAll(Built([e \in Instances |-> 1], xs, ys))
    /\ live = Instances
    /\ spawned = [e \in Instances |-> 1]
    /\ clean = [e \in Instances |-> FALSE]
    /\ committed = [e \in Instances |-> <<entities[e].x, entities[e].y>>]
    /\ last = Call("new", NoInstance)
    /\ audio = Constructed(FullVolume)

NextMove ==
    \/ \E self \in Instances, x \in Coord, y \in Coord : SetPosition(self, x, y)
    \/ \E self \in Instances : UpdatePosition(self)
    \/ \E self \in Instances : MarkDead(self)
    \/ \E self \in Instances, player \in Instances : CanAggro(self, player)

SpecMove == InitMove /\ [][NextMove]_vars

(***************************************************************************)
(* The frame specification: as the visibility specification, from a world  *)
(* in which one entity has already been moved off the cell it was built in *)
(* and has died.                                                           *)
(***************************************************************************)
InitFrame ==
    /\ \E ids \in [Instances -> Ids], mover \in Instances :
           entities =
               markDead(
                   setPosition(
                       Built(ids, [e \in Instances |-> 0], [e \in Instances |-> 0]),
                       mover, MaxCoord, MaxCoord),
                   mover)
    /\ live = Instances
    /\ spawned = [e \in Instances |-> 1]
    /\ clean = [e \in Instances |-> FALSE]
    /\ committed = [e \in Instances |-> <<0, 0>>]
    /\ last = Call("new", NoInstance)
    /\ audio = Constructed(FullVolume)

SpecFrame == InitFrame /\ [][NextVisibility]_vars

(***************************************************************************)
(* The spatial specification: the entities are built at any cells of a     *)
(* grid wide enough for distances 0..MaxReach, and the spatial queries are *)
(* asked of any pair with any radius.                                      *)
(***************************************************************************)
Reach == 0..MaxReach

InitSpatial ==
    /\ \E xs \in [Instances -> Reach], ys \in [Instances -> Reach] :
           entities = Built([e \in Instances |-> 1], xs, ys)
    /\ live = Instances
    /\ spawned = [e \in Instances |-> 1]
    /\ clean = [e \in Instances |-> FALSE]
    /\ committed = [e \in Instances |-> <<entities[e].x, entities[e].y>>]
    /\ last = Call("new", NoInstance)
    /\ audio = Constructed(FullVolume)

NextSpatial ==
    \/ \E self \in Instances, entity \in Instances : GetDistance(self, entity)
    \/ \E self \in Instances, toX \in Reach, toY \in Reach :
           GetCoordDistance(self, toX, toY)
    \/ \E self \in Instances, entity \in Instances, distance \in Reach :
           IsNear(self, entity, distance)
    \/ \E self \in Instances, entity \in Instances : IsSurrounding(self, entity)
    \/ \E self \in Instances, entity \in Instances : IsNonDiagonal(self, entity)

SpecSpatial == InitSpatial /\ [][NextSpatial]_vars

(***************************************************************************)
(* The snapshot specification: entities of any type, id, special state and *)
(* scale move about and are asked for their state.                         *)
(***************************************************************************)
InitSnapshot ==
    /\ \E type \in Types, id \in Ids, x \in Coord, y \in Coord,
          specialState \in SpecialStates \cup {Undefined}, customScale \in Scales :
           entities = [e \in Instances |->
                          Typed(Entity(1, id, e, x, y), type, specialState, customScale)]
    /\ live = Instances
    /\ spawned = [e \in Instances |-> 1]
    /\ clean = [e \in Instances |-> FALSE]
    /\ committed = [e \in Instances |-> <<entities[e].x, entities[e].y>>]
    /\ last = Call("new", NoInstance)
    /\ audio = Constructed(FullVolume)

NextSnapshot ==
    \/ \E self \in Instances, x \in Coord, y \in Coord : SetPosition(self, x, y)
    \/ \E self \in Instances, miss \in Misses : GetState(self, miss)

SpecSnapshot == InitSnapshot /\ [][NextSnapshot]_vars

(***************************************************************************)
(* The audio specification: an Audio object under any interleaving of its  *)
(* methods, of the loading of its elements and of the firing of its        *)
(* timers.                                                                 *)
(***************************************************************************)
InitAudio ==
    /\ entities = Built([e \in Instances |-> 1], [e \in Instances |-> 0],
                        [e \in Instances |-> 0])
    /\ live = Instances
    /\ spawned = [e \in Instances |-> 1]
    /\ clean = [e \in Instances |-> FALSE]
    /\ committed = [e \in Instances |-> <<0, 0>>]
    /\ last = Call("new", NoInstance)
    /\ \E music \in MusicVolumes : audio = Constructed(music)

NextAudio ==
    \/ Load
    \/ \E name \in SongNames : Parse(name, MusicChannels)
    \/ \E song \in 1..MaxElements : CanPlayThrough(song)
    \/ \E song \in 1..MaxElements : LoadError(song)
    \/ \E type \in AudioTypes, name \in FileNames, env \in Envs : Play(type, name, env)
    \/ \E newSong \in FileNames \cup {Undefined}, env \in Envs : Update(newSong, env)
    \/ \E song \in 0..MaxElements : FadeIn(song)
    \/ \E song \in 0..MaxElements, callback \in {"resetSong", NoCallback} :
           FadeOut(song, callback)
    \/ FadeSongOut
    \/ Stop
    \/ \E song \in 1..MaxElements : ClearFadeIn(song)
    \/ \E song \in 1..MaxElements : ClearFadeOut(song)
    \/ \E song \in 0..MaxElements : Reset(song)
    \/ \E volume \in Volumes : SetSongVolume(volume)
    \/ \E id \in 1..MaxTimers : TimerFires(id)

SpecAudio == InitAudio /\ [][NextAudio]_vars

(***************************************************************************)
(* The notification specification: callbacks are registered, replaced and  *)
(* unregistered on freshly built entities, which are moved in any order.   *)
(***************************************************************************)
InitNotify ==
    /\ entities = Built([e \in Instances |-> 1],
                        [e \in Instances |-> 0], [e \in Instances |-> 0])
    /\ live = Instances
    /\ spawned = [e \in Instances |-> 1]
    /\ clean = [e \in Instances |-> FALSE]
    /\ committed = [e \in Instances |-> <<0, 0>>]
    /\ last = Call("new", NoInstance)
    /\ audio = Constructed(FullVolume)

NextNotify ==
    \/ \E self \in Instances, callback \in Callbacks \cup {NoCallback} :
           OnSetPosition(self, callback)
    \/ \E self \in Instances, x \in Coord, y \in Coord : SetPosition(self, x, y)

SpecNotify == InitNotify /\ [][NextNotify]_vars

(***************************************************************************)
(* Properties of the visibility override lists (SpecVisibility).           *)
(***************************************************************************)
\* visibleTo(o, t) = NOT o.hasInvisible(t)
visibleTo(w, o, t) == ~hasInvisible(w, o, t)

\* C1 as stated: o.addInvisible(t) directly followed by o.removeInvisible(t)
\* leaves visibleTo(o, t) at the value it had before the addInvisible call,
\* whatever o's lists held before, t already hidden by instance included.
C1_RoundTripAlways ==
    (last.op = "removeInvisible" /\ last.paired)
        => (visibleTo(entities, last.self, last.target) = ~last.before)

\* C1 (amended): after o.addInvisible(t) directly followed by
\* o.removeInvisible(t), t is visible to o by instance; this is the value
\* visibleTo(o, t) had before the addInvisible call whenever t was not
\* already in o's invisibles then.
C1_RoundTrip ==
    (last.op = "removeInvisible" /\ last.paired)
        => /\ visibleTo(entities, last.self, last.target)
           /\ (~last.before =>
                 visibleTo(entities, last.self, last.target) = ~last.before)

C1_Witness ==
    /\ last.op = "removeInvisible" /\ last.paired /\ ~last.before
    /\ last.self # last.target
    /\ entities[last.self].invisiblesIds # <<>>

\* C2 as stated: addInvisibleId(id) on an owner that already hides id leaves
\* invisiblesIds as it was, and after removeInvisibleId(id) the owner's
\* hasInvisibleId(id) is false.
C2_HideIdIdempotent ==
    [][ /\ (last'.op = "addInvisibleId" /\ last'.pre) =>
              entities'[last'.self].invisiblesIds
                  = entities[last'.self].invisiblesIds
        /\ last'.op = "removeInvisibleId" =>
              ~hasInvisibleId(entities', last'.self, last'.num) ]_vars

\* C3 as stated: for every observer and target, the observer's answer to
\* "is this entity hidden" (hasInvisible) is true iff the target's instance
\* is in the observer's invisibles or the target's id is in its
\* invisiblesIds.
C3_HiddenIffInstanceOrId ==
    \A o \in live, t \in live :
        hasInvisible(entities, o, t)
            <=> \/ t \in DOMAIN entities[o].invisibles
                \/ \E i \in 1..Len(entities[o].invisiblesIds) :
                       entities[o].invisiblesIds[i] = entities[t].id

\* C5: a call A.addInvisible(B) or A.addInvisibleId(id) changes neither list
\* of any entity other than A, so visibleTo(B, A) keeps its value.
C5_Asymmetric ==
    [][ last'.op \in {"addInvisible", "addInvisibleId"} =>
          \A b \in Instances \ {last'.self} :
              /\ entities'[b].invisibles = entities[b].invisibles
              /\ entities'[b].invisiblesIds = entities[b].invisiblesIds
              /\ visibleTo(entities', b, last'.self)
                     = visibleTo(entities, b, last'.self) ]_vars

C5_Witness ==
    /\ last.op = "addInvisible" /\ last.self # last.target /\ ~last.pre
    /\ ~visibleTo(entities, last.self, last.target)
    /\ visibleTo(entities, last.target, last.self)
    /\ entities[last.self].id = entities[last.target].id

\* C12: removeInvisible of an instance the owner does not list, and
\* removeInvisibleId of an id the owner does not list, throw nothing and
\* change no field of any entity.
C12_AbsentRemoveNoOp ==
    [][ (last'.op \in {"removeInvisible", "removeInvisibleId"} /\ ~last'.pre)
          => (entities' = entities /\ ~last'.out.threw) ]_vars

C12_Witness ==
    /\ last.op = "removeInvisibleId" /\ ~last.pre
    /\ entities[last.self].invisiblesIds # <<>>
    /\ DOMAIN entities[last.self].invisibles # {}

\* C18: addInvisible and removeInvisible change no entity's invisiblesIds,
\* addInvisibleId and removeInvisibleId change no entity's invisibles, and
\* none of the four changes any entity's x, y, oldX, oldY or dead.
C18_ListsIndependent ==
    [][ \A e \in Instances :
          /\ last'.op \in {"addInvisible", "removeInvisible"} =>
                entities'[e].invisiblesIds = entities[e].invisiblesIds
          /\ last'.op \in {"addInvisibleId", "removeInvisibleId"} =>
                entities'[e].invisibles = entities[e].invisibles
          /\ last'.op \in {"addInvisible", "removeInvisible",
                            "addInvisibleId", "removeInvisibleId"} =>
                /\ entities'[e].x = entities[e].x
                /\ entities'[e].y = entities[e].y
                /\ entities'[e].oldX = entities[e].oldX
                /\ entities'[e].oldY = entities[e].oldY
                /\ entities'[e].dead = entities[e].dead ]_vars

C18_Witness ==
    /\ last.op = "removeInvisible" /\ last.pre
    /\ hasInvisibleId(entities, last.self, entities[last.target].id)
    /\ entities[last.self].dead
    /\ entities[last.self].x # entities[last.self].oldX

(***************************************************************************)
(* Properties of destruction (SpecLifecycle).                              *)
(***************************************************************************)
\* An entry of a live entity's invisibles whose key is held by a live entity
\* refers to that entity, not to an earlier holder of the instance string.
NoStaleEntry ==
    \A self \in live :
        \A k \in DOMAIN entities[self].invisibles :
            k \in live => entities[self].invisibles[k] = entities[k].serial

\* C4: the purge of a destroyed entity X from the invisibles of every live
\* entity has completed before X's instance string is given to a newly
\* created entity (when the new entity has just been created, no live
\* entity lists its instance string), and no live entity ever lists, for an
\* instance string that has been handed out again, the entity that held it
\* before.
C4_PurgeBeforeReuse ==
    /\ last.op = "create" => PurgeDone(last.self)
    /\ NoStaleEntry

(***************************************************************************)
(* Properties of movement and of the aggro hook (SpecMove).                *)
(***************************************************************************)
Cell(e) == <<entities[e].x, entities[e].y>>
OldCell(e) == <<entities[e].oldX, entities[e].oldY>>

\* C6: canAggro on a base Entity throws, for every player argument and
\* whether the entity is alive or dead; it returns no value and changes no
\* entity.
C6_CanAggroThrows ==
    [][ last'.op = "canAggro" =>
          /\ last'.out.threw
          /\ last'.out.message = "Method not implemented."
          /\ entities' = entities ]_vars

C6_Witness ==
    /\ last.op = "canAggro" /\ last.out.threw
    /\ entities[last.self].dead
    /\ last.self # last.target /\ ~entities[last.target].dead

\* C7 as stated: once an entity's dead flag is true, canAggro on it returns
\* false for any player.
C7_DeadReturnsFalse ==
    (last.op = "canAggro" /\ entities[last.self].dead)
        => (~last.out.threw /\ last.out.ret = FALSE)

\* C7 (amended): once an entity's dead flag is true, canAggro on it never
\* returns true: on the base Entity the call throws, as it does when the
\* entity is alive, and returns nothing.
C7_DeadNeverAggro ==
    (last.op = "canAggro" /\ entities[last.self].dead)
        => (last.out.threw /\ last.out.ret # TRUE)

C7_Witness ==
    /\ last.op = "canAggro" /\ entities[last.self].dead
    /\ last.self = last.target

\* C8: (oldX, oldY) is the cell the entity was in when updatePosition was last
\* called on it (the cell it was built in, if never), and a step that changes
\* an entity's (oldX, oldY) is an updatePosition call on that entity.
C8_OldIsLastCommitted ==
    /\ [](\A e \in Instances : OldCell(e) = committed[e])
    /\ [][ \A e \in Instances :
              (entities'[e].oldX # entities[e].oldX
                  \/ entities'[e].oldY # entities[e].oldY)
              => (last'.op = "updatePosition" /\ last'.self = e) ]_vars

C8_Witness ==
    /\ last.op = "updatePosition" /\ ~last.pre
    /\ <<last.ax, last.ay>> # OldCell(last.self)
    /\ last.ax # entities[last.self].oldX /\ last.ay # entities[last.self].oldY
    /\ OldCell(last.self) = committed[last.self]

\* C9: setPosition(x, y) makes (x, y) the entity's coordinates and leaves its
\* oldX, oldY, dead, invisibles and invisiblesIds as they were.
C9_SetPositionFrame ==
    [][ last'.op = "setPosition" =>
          LET e == last'.self
          IN  /\ entities'[e].x = last'.ax
              /\ entities'[e].y = last'.ay
              /\ entities'[e].oldX = entities[e].oldX
              /\ entities'[e].oldY = entities[e].oldY
              /\ entities'[e].dead = entities[e].dead
              /\ entities'[e].invisibles = entities[e].invisibles
              /\ entities'[e].invisiblesIds = entities[e].invisiblesIds ]_vars

C9_Witness ==
    /\ last.op = "setPosition"
    /\ Cell(last.self) = <<last.ax, last.ay>>
    /\ entities[last.self].x # entities[last.self].oldX
    /\ entities[last.self].y # entities[last.self].oldY
    /\ entities[last.self].dead
    /\ DOMAIN entities[last.self].invisibles # {}
    /\ entities[last.self].invisiblesIds # <<>>

\* C10: updatePosition never changes (x, y), and called again with no
\* setPosition on the entity since its previous updatePosition it leaves
\* (oldX, oldY) as that previous call left them.
C10_CommitIdempotent ==
    [][ last'.op = "updatePosition" =>
          LET e == last'.self
          IN  /\ entities'[e].x = entities[e].x
              /\ entities'[e].y = entities[e].y
              /\ clean[e] => /\ entities'[e].oldX = entities[e].oldX
                              /\ entities'[e].oldY = entities[e].oldY ]_vars

C10_Witness ==
    /\ last.op = "updatePosition" /\ last.pre
    /\ <<last.ax, last.ay>> = OldCell(last.self)
    /\ OldCell(last.self) = Cell(last.self)
    /\ Cell(last.self) # <<0, 0>>

(***************************************************************************)
(* Properties of the position-change notification (SpecNotify).            *)
(***************************************************************************)
\* C11: onSetPosition makes its argument the entity's one registered
\* callback, replacing any earlier one; a setPosition(x, y) call invokes the
\* callback registered at that moment exactly once, with the entity already
\* at (x, y), and with none registered it invokes nothing; it does not throw.
C11_OneCallback ==
    [][ /\ last'.op = "onSetPosition" =>
              /\ entities'[last'.self].setPositionCallback = last'.cb
              /\ \A e \in Instances \ {last'.self} :
                     entities'[e].setPositionCallback
                         = entities[e].setPositionCallback
        /\ last'.op = "setPosition" =>
              LET registered == entities[last'.self].setPositionCallback
              IN  /\ ~last'.out.threw
                  /\ entities'[last'.self].setPositionCallback = registered
                  /\ last'.calls =
                         IF registered = NoCallback
                         THEN <<>>
                         ELSE << [callback |-> registered,
                                  x |-> last'.ax, y |-> last'.ay] >> ]_vars

C11_Witness ==
    /\ last.op = "setPosition" /\ last.paired
    /\ Len(last.calls) = 1
    /\ last.calls[1].callback = entities[last.self].setPositionCallback
    /\ last.calls[1].x # entities[last.self].oldX
    /\ last.calls[1].y # entities[last.self].oldY
    /\ \E e \in Instances \ {last.self} :
           entities[e].setPositionCallback = NoCallback

(***************************************************************************)
(* Properties of the spatial queries (SpecSpatial).                        *)
(***************************************************************************)
Max(a, b) == IF a >= b THEN a ELSE b

\* Chebyshev distance between the cells of two entities.
Chebyshev(a, b) ==
    Max(abs(entities[a].x - entities[b].x), abs(entities[a].y - entities[b].y))

\* C15: a.isNear(b, r) is true iff a.getDistance(b) <= r, and getDistance is
\* the Chebyshev distance max(|dx|, |dy|).
C15_NearIffWithin ==
    /\ last.op = "isNear" =>
          (last.out.ret = (getDistance(entities, last.self, last.target) <= last.num))
    /\ last.op = "getDistance" =>
          last.out.ret = Chebyshev(last.self, last.target)

C15_Witness ==
    /\ last.op = "isNear" /\ ~last.out.ret /\ last.num > 0
    /\ abs(entities[last.self].x - entities[last.target].x) <= last.num
    /\ abs(entities[last.self].y - entities[last.target].y) = last.num + 1

\* C16: a.isNonDiagonal(b) is true iff b is a's own cell or one of its four
\* orthogonal neighbours, that is iff a.isSurrounding(b) (Chebyshev distance
\* 0 or 1) and (a.x = b.x or a.y = b.y); it is false for the four diagonal
\* neighbours and at distance 2 or more.
C16_NonDiagonal ==
    last.op = "isNonDiagonal" =>
        LET a == entities[last.self]
            b == entities[last.target]
            dx == abs(a.x - b.x)
            dy == abs(a.y - b.y)
        IN  /\ last.out.ret = (<<dx, dy>> \in {<<0, 0>>, <<1, 0>>, <<0, 1>>})
            /\ last.out.ret = (/\ Chebyshev(last.self, last.target) \in {0, 1}
                               /\ (a.x = b.x \/ a.y = b.y))
            /\ last.out.ret = (/\ isSurrounding(entities, last.self, last.target)
                               /\ (a.x = b.x \/ a.y = b.y))

C16_Witness ==
    /\ last.op = "isNonDiagonal" /\ ~last.out.ret
    /\ entities[last.self].x = entities[last.target].x
    /\ abs(entities[last.self].y - entities[last.target].y) = 2

\* C17: a.getDistance(b) = b.getDistance(a), a.getDistance(a) = 0, and
\* a.getCoordDistance(b.x, b.y) = a.getDistance(b).
C17_DistanceSymmetric ==
    /\ last.op = "getDistance" =>
          /\ last.out.ret = getDistance(entities, last.target, last.self)
          /\ last.self = last.target => last.out.ret = 0
          /\ last.out.ret = getCoordDistance(entities, last.self,
                                entities[last.target].x, entities[last.target].y)
    /\ last.op = "getCoordDistance" =>
          \A b \in Instances :
              (entities[b].x = last.ax /\ entities[b].y = last.ay)
                  => last.out.ret = getDistance(entities, last.self, b)

C17_Witness ==
    /\ last.op = "getDistance" /\ last.out.ret = MaxReach
    /\ entities[last.self].x < entities[last.target].x
    /\ entities[last.self].y > entities[last.target].y

(***************************************************************************)
(* Properties of the state snapshot (SpecSnapshot).                        *)
(***************************************************************************)
colorFor ==
    [ boss |-> "#660033", miniboss |-> "#cc3300", achievementNpc |-> "#669900",
      area |-> "#00aa00", questNpc |-> "#6699ff", questMob |-> "#0099cc" ]

\* C13: the snapshot getState returns has the nameColour field iff
\* specialState is set, and then it is the fixed colour of that state; with
\* specialState absent the field is omitted; the snapshot's id is the
\* entity's instance and its x, y are the current coordinates.
C13_NameColour ==
    (last.op = "getState" /\ ~last.out.threw) =>
        LET e == entities[last.self]
            data == last.out.ret
        IN  /\ ("nameColour" \in DOMAIN data) = (e.specialState # Undefined)
            /\ e.specialState # Undefined =>
                  data.nameColour = colorFor[e.specialState]
            /\ data.id = e.instance
            /\ data.x = e.x /\ data.y = e.y
            /\ data.type = e.type

C13_Witness ==
    /\ last.op = "getState" /\ ~last.out.threw
    /\ entities[last.self].specialState = "questNpc"
    /\ last.out.ret.nameColour = "#6699ff"
    /\ "customScale" \notin DOMAIN last.out.ret
    /\ entities[last.self].x # entities[last.self].oldX
    /\ last.out.ret.x = entities[last.self].x

Placeholder == "unknown"

\* C14: when the tables have no entry for the entity's (type, id), getState
\* either reports a MissingLookup failure or returns a snapshot whose string
\* and name are the placeholder; it never returns a snapshot whose string or
\* name is null, and the table it consults is that of the entity's own type.
C14_MissingLookupExplicit ==
    last.op = "getState" =>
        LET e == entities[last.self]
        IN  /\ last.table = e.type
            /\ e.id \notin Known =>
                  \/ last.out.threw /\ last.out.message = "MissingLookup"
                  \/ /\ ~last.out.threw
                     /\ last.out.ret.string = Placeholder
                     /\ last.out.ret.name = Placeholder
            /\ ~last.out.threw =>
                  (last.out.ret.string # Null /\ last.out.ret.name # Null)

(***************************************************************************)
(* Properties of the music fades (SpecAudio).                              *)
(***************************************************************************)
Pending(song, kind) ==
    \E t \in audio.timers : t.song = song /\ t.kind = kind

\* C19: under any interleaving of fadeIn, fadeOut, fadeSongOut, stop, play
\* and timer firings, no song has both its fadingIn marker and its fadingOut
\* marker set, nor a fade-in timer and a fade-out timer pending together.
C19_OneFadeAtATime ==
    \A song \in 1..Len(audio.elements) :
        /\ ~(audio.elements[song].fadingIn # 0 /\ audio.elements[song].fadingOut # 0)
        /\ ~(Pending(song, "fadeIn") /\ Pending(song, "fadeOut"))

C19_Witness ==
    \E song \in 1..Len(audio.elements) :
        /\ audio.elements[song].volume = FadeInStep
        /\ audio.elements[song].fadingIn = 0
        /\ audio.elements[song].fadingOut > 1
        /\ Pending(song, "fadeOut")

\* C20: once fadeOut(song, callback) has started a fade and no fadeIn
\* intervenes, the fade completes: when no timer of the song is left to
\* fire, its volume is 0, the callback has been called exactly once, and
\* the fadingOut marker is cleared.
C20_FadeOutCompletes ==
    \A song \in 1..Len(audio.elements) :
        (audio.elements[song].fade # NoFade /\ ~Pending(song, "fadeOut")) =>
            /\ audio.elements[song].volume = Silent
            /\ audio.elements[song].fade # NoCallback =>
                  audio.elements[song].completions = 1
            /\ audio.elements[song].fadingOut = 0

====
